---- MODULE Spec2Model ----
(***************************************************************************)
(* Model of scripts/import_ust.py: import_data, the one-way ingestion of   *)
(* the Underground Storage Tanks extract into the "fuel_tanks" series.     *)
(*                                                                         *)
(* Representation choices:                                                 *)
(*   - a datetime is a record [s, f]: whole seconds since                  *)
(*     1970-01-01T00:00:00 and the position f of the reading within the    *)
(*     second (its microseconds); a stored timestamp is whole seconds;     *)
(*   - a float is kept as an integer number of hundredths of a degree;     *)
(*   - a CSV row is a record holding the columns import_data reads;        *)
(*   - the results of strptime, int and float are records [ok, v], where   *)
(*     ok = FALSE stands for the ValueError the call raises;               *)
(*   - an optional float (None or a value) is a record [some, v].          *)
(***************************************************************************)
EXTENDS Integers, Sequences, FiniteSets

\* ---------------------------------------------------------------- bounds
MaxRows == 3
MaxShortRows == 2
MaxRuns == 2
MaxTicks == 1

\* ------------------------------------------------------------- constants
START_OF_TIME == 0
START_OF_TIME_DATE == [s |-> 0, f |-> 0]
S2_LEVEL == 10
measurement == "fuel_tanks"
HeaderId == "UST Site ID Number"

\* The second of the first reading of the clock (2022-10-31T12:00:00Z) and
\* the offsets of the host's local time zone from UTC, in seconds.
ClockStart == 19296 * 86400 + 43200
TzOffsets == {-14400, 0, 7200}

\* Order of datetimes.
DtGeq(a, b) == a.s > b.s \/ (a.s = b.s /\ a.f >= b.f)
DtGt(a, b) == a.s > b.s \/ (a.s = b.s /\ a.f > b.f)

\* ------------------------------------------------- conversions (library)
Ok(n) == [ok |-> TRUE, v |-> n]
ValueError == [ok |-> FALSE, v |-> 0]
Some(n) == [some |-> TRUE, v |-> n]
None == [some |-> FALSE, v |-> 0]

\* datetime.strptime(s, "%m/%d/%Y") on the date strings of the sample
\* rows: midnight of the day.
Midnight(days) == [s |-> days * 86400, f |-> 0]

StrpTime(s) ==
    CASE s = "05/10/2021" -> Ok(Midnight(18757))
      [] s = "05/09/2021" -> Ok(Midnight(18756))
      [] s = "03/15/1999" -> Ok(Midnight(10665))
      [] s = "06/01/1965" -> Ok(Midnight(-1675))
      [] s = "01/01/1970" -> Ok(Midnight(0))
      [] OTHER -> [ok |-> FALSE, v |-> Midnight(0)]

\* str.strip() on the text fields of the sample rows.
Strip(s) ==
    CASE s = " Stamford " -> "Stamford"
      [] s = " 10000 " -> "10000"
      [] s = "  " -> ""
      [] OTHER -> s

\* int(s) on the stripped capacity strings of the sample rows.
IntParse(s) ==
    CASE s = "10000" -> Ok(10000)
      [] s = "550" -> Ok(550)
      [] s = "0" -> Ok(0)
      [] s = "-5" -> Ok(-5)
      [] OTHER -> ValueError

\* float(s) on the coordinate strings of the sample rows (hundredths).
FloatParse(s) ==
    CASE s = "41.76" -> Ok(4176)
      [] s = "41.05" -> Ok(4105)
      [] s = "-72.68" -> Ok(-7268)
      [] s = "-73.54" -> Ok(-7354)
      [] s = "0.0" -> Ok(0)
      [] OTHER -> ValueError

\* re.search('In Use', status): case-sensitive substring search.
InUse(status) == status \in {"Currently In Use", "In Use"}

\* sr.by_zipcode(zip): the location of a known postal code, or nothing.
by_zipcode(zip) ==
    CASE zip = "06101" -> [found |-> TRUE, lat |-> 4176, lng |-> -7267]
      [] zip = "06901" -> [found |-> TRUE, lat |-> 4105, lng |-> -7354]
      [] OTHER -> [found |-> FALSE, lat |-> 0, lng |-> 0]

\* s2cell.lat_lon_to_token(lat, lon, level): the cell is identified by
\* the arguments it was computed from.
lat_lon_to_token(lat, lon, level) == <<"s2", level, lat, lon>>

\* Python truthiness of an optional float: None and 0.0 are false.
Truthy(x) == x.some /\ x.v # 0

\* ------------------------------------------------------------ sample rows
BaseRow ==
    [id |-> "CT-1", city |-> "Hartford", zip |-> "06101",
     status |-> "Permanently Closed", capacity |-> " 10000 ",
     substance_stored |-> "Gasoline", last_used |-> "05/10/2021",
     closure_type |-> "Removed", construction_type |-> "Steel",
     installation |-> "03/15/1999", spill_protection |-> "Yes",
     overfill_protection |-> "Yes", lat |-> "41.76", lon |-> "-72.68"]

RowHeader == [BaseRow EXCEPT !.id = HeaderId, !.capacity = "Estimated Total Capacity (gallons)",
                             !.last_used = "Last Used Date", !.lat = "Tank Latitude"]
RowDirect == BaseRow
RowTie == [BaseRow EXCEPT !.city = " Stamford ", !.capacity = "-5",
                          !.lat = "41.05", !.lon = "-73.54"]
RowEarlier == [BaseRow EXCEPT !.city = "  ", !.last_used = "05/09/2021", !.capacity = "0"]
RowInstalled == [BaseRow EXCEPT !.last_used = "", !.installation = "06/01/1965",
                                !.lat = "", !.lon = ""]
RowInUse == [BaseRow EXCEPT !.last_used = "", !.status = "Currently In Use",
                            !.capacity = "550"]
RowSentinel == [BaseRow EXCEPT !.last_used = "", !.installation = "",
                               !.lon = "", !.zip = "06901"]
RowNoZip == [BaseRow EXCEPT !.lat = "", !.lon = "", !.zip = ""]
RowBadZip == [BaseRow EXCEPT !.lat = "", !.lon = "", !.zip = "00000"]
RowZeroLat == [BaseRow EXCEPT !.lat = "0.0"]
RowBadCapacity == [BaseRow EXCEPT !.capacity = "unknown"]
RowBadLastUsed == [BaseRow EXCEPT !.last_used = "2021-05-10"]
RowBadInstalled == [BaseRow EXCEPT !.last_used = "", !.installation = "n/a"]

\* The rows of the common cases, and all the rows.
CoreRows ==
    {RowHeader, RowDirect, RowTie, RowEarlier, RowInUse, RowNoZip, RowBadCapacity}

SampleRows ==
    CoreRows \cup {RowInstalled, RowSentinel, RowBadZip, RowZeroLat, RowBadLastUsed,
                   RowBadInstalled}

FilesOf(rows, maxLen) == UNION {[1..n -> rows] : n \in 0..maxLen}

\* The input files: up to MaxRows rows of the common cases, or up to
\* MaxShortRows rows of any kind.
Files == FilesOf(CoreRows, MaxRows) \cup FilesOf(SampleRows, MaxShortRows)

\* ------------------------------------------------------------------ state
VARIABLES
    data_file,   \* the rows csv_reader yields, in order
    truncate,    \* the truncate argument
    tz,          \* local time zone offset: datetime.now() - datetime.utcnow()
    clock,       \* the UTC wall clock
    ticks,       \* number of clock advances so far
    runs,        \* number of calls of import_data started
    pc,          \* position of the current call
    idx,         \* number of rows csv_reader has yielded in this call
    tanks,       \* the list tanks
    ignored,     \* the counter ignored
    count,       \* the counter count
    lookups,     \* row numbers for which sr.by_zipcode was called, this call
    calls,       \* calls made on the store's delete/write API, this call
    store,       \* points of the fuel_tanks series held by the store
    reported     \* the totals printed at the end of the call, if any

vars == <<data_file, truncate, tz, clock, ticks, runs, pc, idx, tanks, ignored,
          count, lookups, calls, store, reported>>

\* datetime.utcnow() and datetime.now(): the reading of the clock, and
\* the same reading in local time.
utcnow == clock
now == [s |-> clock.s + tz, f |-> clock.f]

\* The clock after a reading: the next reading is later (the clock has
\* microsecond resolution; the statements between two readings take longer).
AfterReading(c) == [s |-> c.s, f |-> c.f + 1]

\* Line 167-169: the row makes the decoder read datetime.now().
ReadsNow(row) == row.last_used = "" /\ InUse(row.status)

\* ------------------------------------------------------------ row decoder
\* The body of the "for row in csv_reader" loop for one data row, up to
\* the decision between tanks.append and ignored += 1.  rowNo is the
\* position of the row in the file; it is kept in the record (field row)
\* only so that properties can speak about decode order.
\*   kind = "fatal"    : a ValueError left the loop body
\*   kind = "accepted" : the TankPoint tank was appended
\*   kind = "rejected" : ignored was incremented
\*   looked            : sr.by_zipcode was called
\* A variant that prefers the installation date to the status.
ResolveLastUsedInstallFirst(row, nowLocal) ==
    IF row.last_used = ""
    THEN IF row.installation # "" THEN StrpTime(row.installation)
         ELSE IF InUse(row.status) THEN Ok(nowLocal)
         ELSE Ok(START_OF_TIME_DATE)
    ELSE StrpTime(row.last_used)

ResolveLastUsed(row, nowLocal) ==
    IF row.last_used = ""
    THEN IF InUse(row.status) THEN Ok(nowLocal)
         ELSE IF row.installation # "" THEN StrpTime(row.installation)
         ELSE Ok(START_OF_TIME_DATE)
    ELSE StrpTime(row.last_used)

\* A variant that takes the looked-up longitude for the latitude.
ResolveLocationSwapped(row) ==
    IF row.lat # "" /\ row.lon # ""
    THEN LET la == FloatParse(row.lat)
             lo == FloatParse(row.lon)
         IN IF la.ok /\ lo.ok
            THEN [lat |-> Some(la.v), lon |-> Some(lo.v), looked |-> FALSE, ok |-> TRUE]
            ELSE [lat |-> None, lon |-> None, looked |-> FALSE, ok |-> FALSE]
    ELSE IF row.zip # ""
    THEN LET sr_data == by_zipcode(row.zip)
         IN IF sr_data.found
            THEN [lat |-> Some(sr_data.lng), lon |-> Some(sr_data.lat), looked |-> TRUE, ok |-> TRUE]
            ELSE [lat |-> None, lon |-> None, looked |-> TRUE, ok |-> TRUE]
    ELSE [lat |-> None, lon |-> None, looked |-> FALSE, ok |-> TRUE]

\* Lines 191-202: the coordinates lat and lon; looked: by_zipcode was
\* called; ok = FALSE: float raised ValueError.
ResolveLocation(row) ==
    IF row.lat # "" /\ row.lon # ""
    THEN LET la == FloatParse(row.lat)
             lo == FloatParse(row.lon)
         IN IF la.ok /\ lo.ok
            THEN [lat |-> Some(la.v), lon |-> Some(lo.v), looked |-> FALSE, ok |-> TRUE]
            ELSE [lat |-> None, lon |-> None, looked |-> FALSE, ok |-> FALSE]
    ELSE IF row.zip # ""
    THEN LET sr_data == by_zipcode(row.zip)
         IN IF sr_data.found
            THEN [lat |-> Some(sr_data.lat), lon |-> Some(sr_data.lng), looked |-> TRUE, ok |-> TRUE]
            ELSE [lat |-> None, lon |-> None, looked |-> TRUE, ok |-> TRUE]
    ELSE [lat |-> None, lon |-> None, looked |-> FALSE, ok |-> TRUE]

\* Line 203: "if lat and lon".
HasLocation(lat, lon) == Truthy(lat) /\ Truthy(lon)

NoTank == [row |-> 0]

TankPoint(row, rowNo, last_used, capacity, lat, lon) ==
    [row |-> rowNo,
     city |-> Strip(row.city),
     last_used_date |-> last_used,
     closure_type |-> Strip(row.closure_type),
     construction_type |-> Strip(row.construction_type),
     estimated_total_capacity |-> capacity,
     spill_protection |-> Strip(row.spill_protection),
     overfill_protection |-> Strip(row.overfill_protection),
     substance_stored |-> Strip(row.substance_stored),
     lat |-> lat,
     lon |-> lon,
     s2_cell_id_token |-> lat_lon_to_token(lat, lon, S2_LEVEL),
     status |-> Strip(row.status)]

Decode(row, rowNo, nowLocal) ==
    LET last_used == ResolveLastUsed(row, nowLocal)
        capacity == IntParse(Strip(row.capacity))
        loc == ResolveLocation(row)
    IN IF ~last_used.ok THEN [kind |-> "fatal", looked |-> FALSE, tank |-> NoTank]
       ELSE IF ~capacity.ok THEN [kind |-> "fatal", looked |-> FALSE, tank |-> NoTank]
       ELSE IF ~loc.ok THEN [kind |-> "fatal", looked |-> FALSE, tank |-> NoTank]
       ELSE IF HasLocation(loc.lat, loc.lon)
       THEN [kind |-> "accepted", looked |-> loc.looked,
             tank |-> TankPoint(row, rowNo, last_used.v, capacity.v, loc.lat.v, loc.lon.v)]
       ELSE [kind |-> "rejected", looked |-> loc.looked, tank |-> NoTank]

\* ------------------------------------------------------------ the ordering
\* tanks.sort(key=lambda p: p.last_used_date, reverse=True): list.sort is
\* stable, and reverse=True keeps the original order of equal keys.
\* A variant that moves a record ahead of the earlier records of equal key.
BeforeStrict(a, b) == DtGt(a.last_used_date, b.last_used_date)

\* Before(a, b): a must come before b when both are already in that order.
Before(a, b) == DtGeq(a.last_used_date, b.last_used_date)

RECURSIVE Insert(_, _)
Insert(sorted, t) ==
    IF sorted = <<>> THEN <<t>>
    ELSE IF Before(sorted[Len(sorted)], t) THEN Append(sorted, t)
    ELSE Append(Insert(SubSeq(sorted, 1, Len(sorted) - 1), t), sorted[Len(sorted)])

RECURSIVE SortTanks(_)
SortTanks(s) ==
    IF s = <<>> THEN <<>>
    ELSE Insert(SortTanks(SubSeq(s, 1, Len(s) - 1)), s[Len(s)])

\* ---------------------------------------------------------------- the store
\* Point(measurement).tag(...).field(...).time(last_used_date, S): seven
\* tags, three fields and the timestamp; a naive datetime is taken as UTC
\* and WritePrecision.S keeps its whole seconds.
MakePoint(tank) ==
    [measurement |-> measurement,
     city |-> tank.city,
     closure_type |-> tank.closure_type,
     construction_type |-> tank.construction_type,
     spill_protection |-> tank.spill_protection,
     overfill_protection |-> tank.overfill_protection,
     substance_stored |-> tank.substance_stored,
     s2_cell_id |-> tank.s2_cell_id_token,
     estimated_total_capacity |-> tank.estimated_total_capacity,
     lat |-> tank.lat,
     lon |-> tank.lon,
     time |-> tank.last_used_date.s]

\* Two points are the same point of the series when measurement, tag set
\* and timestamp agree; the later write replaces the fields.
SameSeriesPoint(p, q) ==
    /\ p.measurement = q.measurement
    /\ p.city = q.city
    /\ p.closure_type = q.closure_type
    /\ p.construction_type = q.construction_type
    /\ p.spill_protection = q.spill_protection
    /\ p.overfill_protection = q.overfill_protection
    /\ p.substance_stored = q.substance_stored
    /\ p.s2_cell_id = q.s2_cell_id
    /\ p.time = q.time

StoreWrite(st, p) == {q \in st : ~SameSeriesPoint(p, q)} \cup {p}

\* delete_api.delete(start, stop, predicate '_measurement="fuel_tanks"').
\* start is a whole second, stop a datetime with its microseconds, and the
\* stored timestamps are whole seconds.
InDeleteRange(start, stop, p) == start <= p.time /\ DtGeq(stop, [s |-> p.time, f |-> 0])

StoreDelete(st, start, stop) ==
    {q \in st : ~(q.measurement = measurement /\ InDeleteRange(start, stop, q))}

\* ------------------------------------------------------------------- Init
Init ==
    /\ data_file \in Files
    /\ truncate \in BOOLEAN
    /\ tz \in TzOffsets
    /\ clock = [s |-> ClockStart, f |-> 0]
    /\ ticks = 0
    /\ runs = 0
    /\ pc = "idle"
    /\ idx = 0
    /\ tanks = <<>>
    /\ ignored = 0
    /\ count = 0
    /\ lookups = <<>>
    /\ calls = <<>>
    /\ store = {}
    /\ reported = <<>>

\* ---------------------------------------------------------------- actions
\* Time passes: the clock reaches the next second (at most MaxTicks times).
Tick ==
    /\ ticks < MaxTicks
    /\ pc \notin {"done", "raised_row", "raised_empty"} \/ (pc = "done" /\ runs < MaxRuns)
    /\ clock' = [s |-> clock.s + 1, f |-> 0]
    /\ ticks' = ticks + 1
    /\ UNCHANGED <<data_file, truncate, tz, runs, pc, idx, tanks, ignored, count,
                   lookups, calls, store, reported>>

\* A variant that truncates the series whatever the truncate argument.
BeginAlwaysTruncate ==
    /\ pc \in {"idle", "done"}
    /\ runs < MaxRuns
    /\ runs' = runs + 1
    /\ tanks' = <<>>
    /\ idx' = 0
    /\ count' = 0
    /\ ignored' = 0
    /\ lookups' = <<>>
    /\ reported' = <<>>
    /\ store' = StoreDelete(store, START_OF_TIME, utcnow)
    /\ calls' = <<[op |-> "delete", start |-> START_OF_TIME, stop |-> utcnow,
                   predicate |-> measurement, decoded |-> 0]>>
    /\ clock' = AfterReading(clock)
    /\ pc' = "decode"
    /\ UNCHANGED <<data_file, truncate, tz, ticks>>

\* Lines 139-150: a call of import_data opens the file and the client,
\* truncates the series when asked to, and zeroes the counters.
Begin ==
    /\ pc \in {"idle", "done"}
    /\ runs < MaxRuns
    /\ runs' = runs + 1
    /\ tanks' = <<>>
    /\ idx' = 0
    /\ count' = 0
    /\ ignored' = 0
    /\ lookups' = <<>>
    /\ reported' = <<>>
    /\ IF truncate
       THEN /\ store' = StoreDelete(store, START_OF_TIME, utcnow)
            /\ calls' = <<[op |-> "delete", start |-> START_OF_TIME, stop |-> utcnow,
                           predicate |-> measurement, decoded |-> 0]>>
            /\ clock' = AfterReading(clock)
       ELSE /\ store' = store
            /\ calls' = <<>>
            /\ clock' = clock
    /\ pc' = "decode"
    /\ UNCHANGED <<data_file, truncate, tz, ticks>>

NextRow == data_file[idx + 1]

\* A variant that counts the header row as ignored.
SkipHeaderCounted ==
    /\ pc = "decode"
    /\ idx < Len(data_file)
    /\ NextRow.id = HeaderId
    /\ idx' = idx + 1
    /\ ignored' = ignored + 1
    /\ UNCHANGED <<data_file, truncate, tz, clock, ticks, runs, pc, tanks,
                   count, lookups, calls, store, reported>>

\* Lines 160-161: the header row is skipped.
SkipHeader ==
    /\ pc = "decode"
    /\ idx < Len(data_file)
    /\ NextRow.id = HeaderId
    /\ idx' = idx + 1
    /\ UNCHANGED <<data_file, truncate, tz, clock, ticks, runs, pc, tanks, ignored,
                   count, lookups, calls, store, reported>>

\* Lines 162-227, location resolved: the tank is appended.
AcceptRow ==
    /\ pc = "decode"
    /\ idx < Len(data_file)
    /\ NextRow.id # HeaderId
    /\ LET d == Decode(NextRow, idx + 1, now)
       IN /\ d.kind = "accepted"
          /\ tanks' = Append(tanks, d.tank)
          /\ lookups' = IF d.looked THEN Append(lookups, idx + 1) ELSE lookups
    /\ idx' = idx + 1
    /\ clock' = IF ReadsNow(NextRow) THEN AfterReading(clock) ELSE clock
    /\ UNCHANGED <<data_file, truncate, tz, ticks, runs, pc, ignored, count,
                   calls, store, reported>>

\* Lines 162-227, no location: the row is counted as ignored.
RejectRow ==
    /\ pc = "decode"
    /\ idx < Len(data_file)
    /\ NextRow.id # HeaderId
    /\ LET d == Decode(NextRow, idx + 1, now)
       IN /\ d.kind = "rejected"
          /\ lookups' = IF d.looked THEN Append(lookups, idx + 1) ELSE lookups
    /\ ignored' = ignored + 1
    /\ idx' = idx + 1
    /\ clock' = IF ReadsNow(NextRow) THEN AfterReading(clock) ELSE clock
    /\ UNCHANGED <<data_file, truncate, tz, ticks, runs, pc, tanks, count,
                   calls, store, reported>>

\* A variant that swallows the ValueError and counts the row as ignored.
FatalRowSoft ==
    /\ pc = "decode"
    /\ idx < Len(data_file)
    /\ NextRow.id # HeaderId
    /\ Decode(NextRow, idx + 1, now).kind = "fatal"
    /\ idx' = idx + 1
    /\ ignored' = ignored + 1
    /\ clock' = IF ReadsNow(NextRow) THEN AfterReading(clock) ELSE clock
    /\ UNCHANGED <<data_file, truncate, tz, ticks, runs, pc, tanks, count,
                   lookups, calls, store, reported>>

\* Lines 228-230: a ValueError is printed and raised again; it leaves
\* import_data through the with blocks.
FatalRow ==
    /\ pc = "decode"
    /\ idx < Len(data_file)
    /\ NextRow.id # HeaderId
    /\ Decode(NextRow, idx + 1, now).kind = "fatal"
    /\ idx' = idx + 1
    /\ pc' = "raised_row"
    /\ clock' = IF ReadsNow(NextRow) THEN AfterReading(clock) ELSE clock
    /\ UNCHANGED <<data_file, truncate, tz, ticks, runs, tanks, ignored, count,
                   lookups, calls, store, reported>>

\* Lines 232-233: nothing was parsed.
AbortEmpty ==
    /\ pc = "decode"
    /\ idx = Len(data_file)
    /\ tanks = <<>>
    /\ pc' = "raised_empty"
    /\ UNCHANGED <<data_file, truncate, tz, clock, ticks, runs, idx, tanks, ignored,
                   count, lookups, calls, store, reported>>

\* Lines 234-236: the accepted tanks are sorted.
Sort ==
    /\ pc = "decode"
    /\ idx = Len(data_file)
    /\ tanks # <<>>
    /\ tanks' = SortTanks(tanks)
    /\ pc' = "write"
    /\ UNCHANGED <<data_file, truncate, tz, clock, ticks, runs, idx, ignored, count,
                   lookups, calls, store, reported>>

\* Lines 239-257: one iteration of "for tank in tanks".
WriteTank ==
    /\ pc = "write"
    /\ count < Len(tanks)
    /\ LET tank_point == MakePoint(tanks[count + 1])
       IN /\ store' = StoreWrite(store, tank_point)
          /\ calls' = Append(calls, [op |-> "write", point |-> tank_point,
                                     row |-> tanks[count + 1].row,
                                     stamp |-> tanks[count + 1].last_used_date,
                                     decoded |-> idx])
    /\ count' = count + 1
    /\ UNCHANGED <<data_file, truncate, tz, clock, ticks, runs, pc, idx, tanks, ignored,
                   lookups, reported>>

\* A variant that returns without the flush.
FlushSkipped ==
    /\ pc = "write"
    /\ count = Len(tanks)
    /\ pc' = "report"
    /\ UNCHANGED <<data_file, truncate, tz, clock, ticks, runs, idx, tanks, ignored,
                   count, lookups, calls, store, reported>>

\* Line 258: write_api.flush().
Flush ==
    /\ pc = "write"
    /\ count = Len(tanks)
    /\ calls' = Append(calls, [op |-> "flush", decoded |-> idx])
    /\ pc' = "report"
    /\ UNCHANGED <<data_file, truncate, tz, clock, ticks, runs, idx, tanks, ignored,
                   count, lookups, store, reported>>

\* Lines 259-260: the totals are printed.
Report ==
    /\ pc = "report"
    /\ reported' = <<[imported |-> count, ignored |-> ignored]>>
    /\ pc' = "done"
    /\ UNCHANGED <<data_file, truncate, tz, clock, ticks, runs, idx, tanks, ignored,
                   count, lookups, calls, store>>

Next ==
    \/ Tick
    \/ Begin
    \/ SkipHeader
    \/ AcceptRow
    \/ RejectRow
    \/ FatalRow
    \/ AbortEmpty
    \/ Sort
    \/ WriteTank
    \/ Flush
    \/ Report

Spec == Init /\ [][Next]_vars

\* ------------------------------------------------------------- properties
IsWrite(c) == c.op = "write"
Writes == SelectSeq(calls, IsWrite)
IsData(i) == data_file[i].id # HeaderId
DataRows(k) == Cardinality({i \in 1..k : IsData(i)})
BothCoordinates(r) == r.lat # "" /\ r.lon # ""
TankRows == {tanks[k].row : k \in 1..Len(tanks)}

\* C1: when no record was accepted (header only, or only rows rejected for
\* a missing location), the run aborts and no delete call and no write
\* call has been issued on the store, with truncate on or off.
C1_NoStoreCallWhenNothingAccepted ==
    pc = "raised_empty" => calls = <<>>

\* C2: after a second run on the same file with truncate on, the series
\* holds the points of a single run only: every point of the store was
\* written by the run just completed, none is left over from the first.
C2_ReloadLeavesNoResidualPoint ==
    (truncate /\ runs = 2 /\ pc = "done")
        => store = {Writes[i].point : i \in 1..Len(Writes)}

\* C3: while decoding, accepted records plus rejected rows equal the data
\* rows (header rows excluded) among the rows read so far, and the totals
\* reported at the end add up to the number of data rows of the file.
C3_Accounting ==
    /\ pc = "decode" => Len(tanks) + ignored = DataRows(idx)
    /\ reported # <<>> =>
           reported[1].imported + reported[1].ignored = DataRows(Len(data_file))

C3_Witness ==
    /\ pc = "done"
    /\ reported[1].imported >= 1
    /\ reported[1].ignored >= 1
    /\ \E i \in 1..Len(data_file) : ~IsData(i)

\* C4: points are written in descending order of the records' last-used
\* timestamp, records of equal timestamp in the order they were decoded,
\* and once all are written the written records are exactly the accepted
\* ones, each once.
C4_WriteOrder ==
    /\ \A i, j \in 1..Len(Writes) :
           i < j => \/ DtGt(Writes[i].stamp, Writes[j].stamp)
                    \/ /\ Writes[i].stamp = Writes[j].stamp
                       /\ Writes[i].row < Writes[j].row
    /\ pc \in {"report", "done"} =>
           /\ {Writes[i].row : i \in 1..Len(Writes)}
                  = {i \in 1..Len(data_file) :
                         IsData(i) /\ Decode(data_file[i], i, now).kind = "accepted"}
           /\ \A i, j \in 1..Len(Writes) : Writes[i].row = Writes[j].row => i = j

C4_Witness ==
    /\ pc = "done"
    /\ Len(Writes) = 3
    /\ Writes[1].stamp = Writes[2].stamp
    /\ DtGt(Writes[2].stamp, Writes[3].stamp)
    /\ Writes[3].row < Writes[1].row

\* C5: every data row read without a fatal error whose latitude and
\* longitude fields are both non-empty is accepted, with exactly the
\* parsed coordinates (a parsed value of zero included).
C5_RowsWithCoordinatesAccepted ==
    pc = "decode" =>
        \A i \in 1..idx :
            (IsData(i) /\ BothCoordinates(data_file[i])) =>
                \E k \in 1..Len(tanks) :
                    /\ tanks[k].row = i
                    /\ tanks[k].lat = FloatParse(data_file[i].lat).v
                    /\ tanks[k].lon = FloatParse(data_file[i].lon).v

\* C6: the last-used timestamp of a record is the parsed last-used field
\* when that field is non-empty; else the current processing time when
\* the status contains "In Use", whatever the installation date; else the
\* parsed installation date when present; else the epoch sentinel.
C6_LastUsedPriority ==
    [][(pc = "decode" /\ Len(tanks') = Len(tanks) + 1) =>
          LET r == NextRow
              t == tanks'[Len(tanks')].last_used_date
          IN /\ t.s \in Int /\ t.f \in Nat
             /\ r.last_used # "" => t = StrpTime(r.last_used).v
             /\ (r.last_used = "" /\ InUse(r.status)) => t = now
             /\ (r.last_used = "" /\ ~InUse(r.status) /\ r.installation # "")
                    => t = StrpTime(r.installation).v
             /\ (r.last_used = "" /\ ~InUse(r.status) /\ r.installation = "")
                    => t = START_OF_TIME_DATE]_vars

C6_Witness ==
    \E j, k \in 1..Len(tanks) :
        LET a == data_file[tanks[j].row]
            b == data_file[tanks[k].row]
        IN /\ a.last_used = "" /\ InUse(a.status) /\ a.installation # ""
           /\ tanks[j].last_used_date.s >= ClockStart + tz
           /\ b.last_used = "" /\ ~InUse(b.status) /\ b.installation = ""
           /\ tanks[k].last_used_date = START_OF_TIME_DATE

\* C7: the postal lookup is called only for a row whose coordinates are
\* not both given and whose postal code is non-empty, once; a resolved
\* lookup gives the record its coordinates and the level-10 token of
\* them; an empty postal code or an unresolved lookup adds no record and
\* adds exactly one to the rejected count.
C7_PostalFallback ==
    [][(pc = "decode" /\ idx' = idx + 1 /\ IsData(idx + 1)) =>
          LET r == NextRow
              found == by_zipcode(r.zip)
          IN /\ lookups' # lookups =>
                    /\ ~BothCoordinates(r)
                    /\ r.zip # ""
                    /\ lookups' = Append(lookups, idx + 1)
             /\ (pc' = "decode" /\ ~BothCoordinates(r) /\ r.zip # "" /\ found.found) =>
                    /\ Len(tanks') = Len(tanks) + 1
                    /\ tanks'[Len(tanks')].row = idx + 1
                    /\ tanks'[Len(tanks')].lat = found.lat
                    /\ tanks'[Len(tanks')].lon = found.lng
                    /\ tanks'[Len(tanks')].s2_cell_id_token
                           = lat_lon_to_token(found.lat, found.lng, 10)
                    /\ ignored' = ignored
             /\ (pc' = "decode" /\ ~BothCoordinates(r) /\ (r.zip = "" \/ ~found.found)) =>
                    /\ tanks' = tanks
                    /\ ignored' = ignored + 1]_vars

C7_Witness ==
    /\ pc = "decode"
    /\ Len(lookups) = 2
    /\ Len(tanks) = 1
    /\ ignored = 1
    /\ tanks[1].row \in {lookups[1], lookups[2]}

\* C8: a row with a non-integer capacity, or with a non-empty unparsable
\* date in the field consulted (last-used; installation when last-used is
\* empty and the status is not "In Use"), aborts the run: it is not
\* counted as rejected, no later row is decoded, nothing is written or
\* flushed and no totals are reported.
HasFatalField(r) ==
    \/ ~IntParse(Strip(r.capacity)).ok
    \/ r.last_used # "" /\ ~StrpTime(r.last_used).ok
    \/ r.last_used = "" /\ ~InUse(r.status) /\ r.installation # ""
           /\ ~StrpTime(r.installation).ok

C8_FatalRowAborts ==
    [][/\ (pc = "decode" /\ idx' = idx + 1 /\ IsData(idx + 1) /\ HasFatalField(NextRow)) =>
              /\ pc' = "raised_row"
              /\ tanks' = tanks
              /\ ignored' = ignored
              /\ \A i \in 1..Len(calls') : calls'[i].op = "delete"
              /\ reported' = <<>>
       /\ pc = "raised_row" => UNCHANGED <<idx, tanks, ignored, calls, store, reported>>]_vars

C8_Witness ==
    /\ pc = "raised_row"
    /\ HasFatalField(data_file[idx])
    /\ Len(tanks) >= 1
    /\ idx < Len(data_file)

\* C9: every record constructed has a non-negative estimated total
\* capacity.
C9_CapacityNonNegative ==
    \A k \in 1..Len(tanks) : tanks[k].estimated_total_capacity >= 0

\* C10: no write is issued before the last row was read; on completion
\* every accepted record was written exactly once, the number of writes
\* equals the accepted count and the reported imported count, and one
\* flush was issued, after the last write.
C10_WriteAllThenFlush ==
    /\ \A i \in 1..Len(calls) :
           calls[i].op \in {"write", "flush"} => calls[i].decoded = Len(data_file)
    /\ pc = "done" =>
           /\ Len(Writes) = Len(tanks)
           /\ Len(Writes) = DataRows(Len(data_file)) - ignored
           /\ reported[1].imported = Len(Writes)
           /\ \A k \in 1..Len(tanks) :
                  Cardinality({i \in 1..Len(Writes) : Writes[i].row = tanks[k].row}) = 1
           /\ Cardinality({i \in 1..Len(calls) : calls[i].op = "flush"}) = 1
           /\ calls[Len(calls)].op = "flush"

C10_Witness ==
    /\ pc = "done"
    /\ Len(Writes) >= 2
    /\ ignored >= 1

\* C11: with truncate off no delete call is ever issued; with truncate on
\* the run opens with a delete call for the fuel_tanks measurement over
\* the range from the epoch to the current UTC time, and a run that
\* reaches the write stage has issued exactly that one delete call,
\* ahead of every write call.
IsDelete(c) == c.op = "delete"
Deletes == SelectSeq(calls, IsDelete)

C11_TruncateDeletesOnceFirst ==
    [][/\ ~truncate => \A i \in 1..Len(calls') : calls'[i].op # "delete"
       /\ (truncate /\ runs' = runs + 1) =>
              /\ Len(calls') = 1
              /\ calls'[1].op = "delete"
              /\ calls'[1].predicate = "fuel_tanks"
              /\ calls'[1].start = START_OF_TIME
              /\ calls'[1].stop = utcnow
       /\ (truncate /\ pc' \in {"write", "report", "done"}) =>
              /\ Cardinality({i \in 1..Len(calls') : calls'[i].op = "delete"}) = 1
              /\ calls'[1].op = "delete"
              /\ calls'[1].predicate = "fuel_tanks"
              /\ calls'[1].start = START_OF_TIME
              /\ calls'[1].stop.s \in ClockStart..clock.s]_vars

C11_Witness ==
    /\ truncate
    /\ runs = 2
    /\ pc = "done"
    /\ Len(Deletes) = 1
    /\ Len(Writes) >= 2
    /\ Deletes[1].stop.s > ClockStart

====
